---- MODULE Spec2Model ----
(***************************************************************************)
(* Model of train.py: the straight-line fine-tuning pipeline of main().    *)
(* Every external call (utils.*, datasets, trl, transformers) either       *)
(* returns or raises; main has no try/except, so a raise unwinds main.     *)
(***************************************************************************)
EXTENDS Integers, Sequences, FiniteSets, TLC

\* ---------------------------------------------------------------- bounds
MaxEval == 2            \* largest evaluation split drawn in Init

\* ------------------------------------------------------------ value sets
None == "<None>"        \* Python None / unbound local
NoPath == <<>>          \* no path bound yet
NoExample == <<>>       \* example1 not bound yet

Texts == {"t1", "t2"}
ModelIds == {"m1", "m2"}
DatasetId == "d1"
Tokens == {None, "", "hf_tok"}
InstructionColumns == {"instruction", "prompt"}
ResponseColumn == "response"
ColumnSets == { {"instruction", "response"},
                {"prompt", "response"},
                {"instruction", "prompt", "response"} }

ResponseTexts == {"r1"}

\* an example: instruction-like columns hold a prompt text, the response
\* column holds a response text
Examples(cols) ==
    { e \in [cols -> Texts \cup ResponseTexts] :
        \A c \in cols : (c = ResponseColumn) <=> (e[c] \in ResponseTexts) }

EvalSplits(cols) == UNION { [1..n -> Examples(cols)] : n \in 0..MaxEval }

\* what a call can do instead of returning: raise an ordinary exception, or
\* SystemExit(n) (sys.exit in a library; argparse --help and usage errors)
Ok == << "ok" >>
NoException == << >>
Exceptions ==
    { << "Exception" >>, << "SystemExit", 0 >>, << "SystemExit", 2 >> }
Outcomes == {Ok} \cup Exceptions

\* the exit status the interpreter gives an exception that leaves main
ExitStatus(e) == IF e[1] = "SystemExit" THEN e[2] ELSE 1

Configs ==
    [ model : [id : ModelIds],
      dataset : [id : {DatasetId},
                 instruction_column_name : InstructionColumns,
                 response_column_name : {ResponseColumn}],
      hugging_face : [push_to_hub : BOOLEAN, token : Tokens] ]

\* ------------------------------------------------------------- the state
VARIABLES
    config_source,  \* what get_config resolves the model name to
    hub_columns,    \* column names of the dataset on the hub
    hub_eval,       \* evaluation split of the dataset on the hub
    pc,             \* position of main
    cfg,            \* local cfg (valid once get_config has completed)
    output_dir,     \* local output_dir
    fs,             \* filesystem: existing directory -> set of artifacts
    eval_dataset,   \* local eval_dataset
    model,          \* local model
    trainer,        \* local trainer: the model it holds, args.output_dir
    sft_config,     \* local sft_config (its output_dir)
    ft_model,       \* local ft_model
    example1,       \* local example1
    calls,          \* history: every external call main has made
    completed,      \* history: steps of main that returned normally
    error,          \* the step whose call raised, None if none did
    exc,            \* the exception that step raised
    exit_code       \* process exit status: << >> while running, then <<n>>

vars == << config_source, hub_columns, hub_eval, pc, cfg, output_dir, fs,
           eval_dataset, model, trainer, sft_config, ft_model, example1,
           calls, completed, error, exc, exit_code >>

\* ------------------------------------------------------- straight line
StepOrder ==
    << "parse_arguments", "get_config", "setup_output_directory",
       "load_dataset", "prepare_datasets", "load_tokenizer",
       "setup_device_and_quantization", "load_model", "pre_probe",
       "create_peft_config", "create_sft_config", "create_trainer",
       "train", "evaluate", "save_model", "publish", "reload",
       "post_probe", "return" >>

StepIndex(s) == CHOOSE i \in 1..Len(StepOrder) : StepOrder[i] = s

StepAfter_SkipSave(s) ==
    IF s = "evaluate" THEN "publish" ELSE StepOrder[StepIndex(s) + 1]

\* main runs top to bottom: the statement after s
StepAfter(s) == StepOrder[StepIndex(s) + 1]

Call(fn, text, mdl, path) ==
    [fn |-> fn, text |-> text, model |-> mdl, path |-> path]

\* a step returned normally: record it and move to the next statement
Return_(s) ==
    /\ pc' = StepAfter(s)
    /\ completed' = completed \cup {s}
    /\ error' = error
    /\ exc' = exc

Raise_Swallow(s, e) ==
    /\ pc' = StepAfter(s)
    /\ error' = s
    /\ exc' = e
    /\ completed' = completed

\* a step raised: nothing in main catches it, main is unwound
Raise(s, e) ==
    /\ pc' = "raised"
    /\ error' = s
    /\ exc' = e
    /\ completed' = completed

\* an opaque external call with no effect on the modelled state
Opaque(s, fn) ==
    /\ pc = s
    /\ calls' = Append(calls, Call(fn, None, None, NoPath))
    /\ \E out \in Outcomes : IF out = Ok THEN Return_(s) ELSE Raise(s, out)

\* ------------------------------------------------------- pure helpers
\* Python truthiness of cfg.hugging_face.token
Truthy(tok) == tok \notin {None, ""}

ShouldPublish_IgnoreFlag(c) == Truthy(c.hugging_face.token)

ShouldPublish_IgnoreToken(c) == c.hugging_face.push_to_hub

ShouldPublish_Never(c) == FALSE

\* the condition of the if at line 61
ShouldPublish(c) ==
    c.hugging_face.push_to_hub /\ Truthy(c.hugging_face.token)

\* setup_output_directory: the path derived from the configuration
OutputPath(c) == << c.model.id, c.dataset.id >>

\* prepare_datasets validates that both configured columns exist
ColumnsPresent(c, cols) ==
    /\ c.dataset.instruction_column_name \in cols
    /\ c.dataset.response_column_name \in cols

\* prepare_datasets returns the fetched split, its examples keyed by the
\* configured column names
PreparedSplit(c, split) == split

HasKey(ex, k) == k \in DOMAIN ex

PostPrompt_Response(ex) == ex["response"]

\* the prompt of the first probe, line 39
PrePrompt(ex) == ex["instruction"]

\* the prompt of the second probe, line 65
PostPrompt(ex) == ex["instruction"]

\* the directory the fine-tuned model is read from, line 64
ReloadPath(dir) == dir

WriteFs(f, dir, arts) ==
    [p \in DOMAIN f \cup {dir} |->
        IF p = dir THEN (IF p \in DOMAIN f THEN f[p] ELSE {}) \cup arts
        ELSE f[p]]

HasWeights(f, dir) == dir \in DOMAIN f /\ "weights" \in f[dir]

\* models referenced by a live local of main (or by the trainer)
HeldModels == ({model, trainer.model, ft_model}) \ {None}

NoTrainer == [model |-> None, output_dir |-> NoPath]

NoConfig ==
    [ model |-> [id |-> None],
      dataset |-> [id |-> None, instruction_column_name |-> None,
                   response_column_name |-> None],
      hugging_face |-> [push_to_hub |-> FALSE, token |-> None] ]

\* ------------------------------------------------------------------ Init
Init ==
    /\ config_source \in Configs
    /\ hub_columns \in ColumnSets
    /\ hub_eval \in EvalSplits(hub_columns)
    /\ pc = "parse_arguments"
    /\ cfg = NoConfig
    /\ output_dir = NoPath
    /\ fs = [p \in {} |-> {}]
    /\ eval_dataset = << >>
    /\ model = None
    /\ trainer = NoTrainer
    /\ sft_config = NoPath
    /\ ft_model = None
    /\ example1 = NoExample
    /\ calls = << >>
    /\ completed = {}
    /\ error = None
    /\ exc = NoException
    /\ exit_code = << >>

\* --------------------------------------------------------------- actions
ParseArguments ==
    /\ Opaque("parse_arguments", "parse_arguments")
    /\ UNCHANGED << config_source, hub_columns, hub_eval, cfg, output_dir,
                    fs, eval_dataset, model, trainer, sft_config, ft_model,
                    example1, exit_code >>

GetConfig ==
    /\ pc = "get_config"
    /\ calls' = Append(calls, Call("get_config", None, None, NoPath))
    /\ \E out \in Outcomes :
         IF out = Ok THEN cfg' = config_source /\ Return_("get_config")
               ELSE cfg' = cfg /\ Raise("get_config", out)
    /\ UNCHANGED << config_source, hub_columns, hub_eval, output_dir, fs,
                    eval_dataset, model, trainer, sft_config, ft_model,
                    example1, exit_code >>

SetupOutputDirectory ==
    /\ pc = "setup_output_directory"
    /\ calls' = Append(calls,
                  Call("setup_output_directory", None, None, OutputPath(cfg)))
    /\ \E out \in Outcomes :
         IF out = Ok THEN /\ output_dir' = OutputPath(cfg)
                    /\ fs' = WriteFs(fs, OutputPath(cfg), {})
                    /\ Return_("setup_output_directory")
               ELSE /\ UNCHANGED << output_dir, fs >>
                    /\ Raise("setup_output_directory", out)
    /\ UNCHANGED << config_source, hub_columns, hub_eval, cfg, eval_dataset,
                    model, trainer, sft_config, ft_model, example1,
                    exit_code >>

LoadDataset ==
    /\ Opaque("load_dataset", "load_dataset")
    /\ UNCHANGED << config_source, hub_columns, hub_eval, cfg, output_dir,
                    fs, eval_dataset, model, trainer, sft_config, ft_model,
                    example1, exit_code >>

PrepareDatasets ==
    /\ pc = "prepare_datasets"
    /\ calls' = Append(calls, Call("prepare_datasets", None, None, NoPath))
    /\ \E out \in Outcomes :
         IF out = Ok /\ ColumnsPresent(cfg, hub_columns)
            THEN /\ eval_dataset' = PreparedSplit(cfg, hub_eval)
                 /\ Return_("prepare_datasets")
            ELSE /\ eval_dataset' = eval_dataset
                 /\ Raise("prepare_datasets",
                          IF out = Ok THEN << "Exception" >> ELSE out)
    /\ UNCHANGED << config_source, hub_columns, hub_eval, cfg, output_dir,
                    fs, model, trainer, sft_config, ft_model, example1,
                    exit_code >>

LoadTokenizer ==
    /\ Opaque("load_tokenizer", "load_tokenizer")
    /\ UNCHANGED << config_source, hub_columns, hub_eval, cfg, output_dir,
                    fs, eval_dataset, model, trainer, sft_config, ft_model,
                    example1, exit_code >>

SetupDeviceAndQuantization ==
    /\ Opaque("setup_device_and_quantization",
              "setup_device_and_quantization")
    /\ UNCHANGED << config_source, hub_columns, hub_eval, cfg, output_dir,
                    fs, eval_dataset, model, trainer, sft_config, ft_model,
                    example1, exit_code >>

LoadModel ==
    /\ pc = "load_model"
    /\ calls' = Append(calls, Call("load_model", None, None, NoPath))
    /\ \E out \in Outcomes :
         IF out = Ok THEN model' = "base" /\ Return_("load_model")
               ELSE model' = model /\ Raise("load_model", out)
    /\ UNCHANGED << config_source, hub_columns, hub_eval, cfg, output_dir,
                    fs, eval_dataset, trainer, sft_config, ft_model,
                    example1, exit_code >>

\* lines 38-42: example1 = eval_dataset[0]; generate_response; prints
PreProbe ==
    /\ pc = "pre_probe"
    /\ IF Len(eval_dataset) = 0
          THEN /\ example1' = example1     \* IndexError at line 38
               /\ calls' = calls
               /\ Raise("pre_probe", << "Exception" >>)
          ELSE /\ example1' = eval_dataset[1]
               /\ IF HasKey(eval_dataset[1], "instruction")
                     THEN /\ calls' = Append(calls,
                                Call("generate_response",
                                     PrePrompt(eval_dataset[1]), model,
                                     NoPath))
                          /\ \E out \in Outcomes :
                               IF out = Ok THEN Return_("pre_probe")
                                           ELSE Raise("pre_probe", out)
                     ELSE /\ calls' = calls    \* KeyError at line 39
                          /\ Raise("pre_probe", << "Exception" >>)
    /\ UNCHANGED << config_source, hub_columns, hub_eval, cfg, output_dir,
                    fs, eval_dataset, model, trainer, sft_config, ft_model,
                    exit_code >>

CreatePeftConfig ==
    /\ Opaque("create_peft_config", "create_peft_config")
    /\ UNCHANGED << config_source, hub_columns, hub_eval, cfg, output_dir,
                    fs, eval_dataset, model, trainer, sft_config, ft_model,
                    example1, exit_code >>

CreateSftConfig ==
    /\ pc = "create_sft_config"
    /\ calls' = Append(calls,
                  Call("create_sft_config", None, None, output_dir))
    /\ \E out \in Outcomes :
         IF out = Ok THEN sft_config' = output_dir /\ Return_("create_sft_config")
               ELSE sft_config' = sft_config /\ Raise("create_sft_config", out)
    /\ UNCHANGED << config_source, hub_columns, hub_eval, cfg, output_dir,
                    fs, eval_dataset, model, trainer, ft_model, example1,
                    exit_code >>

CreateTrainer ==
    /\ pc = "create_trainer"
    /\ calls' = Append(calls, Call("SFTTrainer", None, model, sft_config))
    /\ \E out \in Outcomes :
         IF out = Ok THEN /\ trainer' = [model |-> model, output_dir |-> sft_config]
                    /\ Return_("create_trainer")
               ELSE /\ trainer' = trainer
                    /\ Raise("create_trainer", out)
    /\ UNCHANGED << config_source, hub_columns, hub_eval, cfg, output_dir,
                    fs, eval_dataset, model, sft_config, ft_model, example1,
                    exit_code >>

\* the trainer may leave checkpoints behind whether or not it finishes
Train ==
    /\ pc = "train"
    /\ calls' = Append(calls, Call("train", None, trainer.model,
                                   trainer.output_dir))
    /\ \E out \in Outcomes, ckpt \in BOOLEAN :
         /\ fs' = IF ckpt THEN WriteFs(fs, trainer.output_dir, {"checkpoint"})
                          ELSE fs
         /\ IF out = Ok THEN Return_("train") ELSE Raise("train", out)
    /\ UNCHANGED << config_source, hub_columns, hub_eval, cfg, output_dir,
                    eval_dataset, model, trainer, sft_config, ft_model,
                    example1, exit_code >>

Evaluate ==
    /\ pc = "evaluate"
    /\ calls' = Append(calls, Call("evaluate", None, trainer.model,
                                   trainer.output_dir))
    /\ \E out \in Outcomes : IF out = Ok THEN Return_("evaluate")
                                 ELSE Raise("evaluate", out)
    /\ UNCHANGED << config_source, hub_columns, hub_eval, cfg, output_dir,
                    fs, eval_dataset, model, trainer, sft_config, ft_model,
                    example1, exit_code >>

SaveModel ==
    /\ pc = "save_model"
    /\ calls' = Append(calls, Call("save_model", None, trainer.model,
                                   trainer.output_dir))
    /\ \E out \in Outcomes :
         IF out = Ok THEN /\ fs' = WriteFs(fs, trainer.output_dir, {"weights"})
                    /\ Return_("save_model")
               ELSE /\ fs' = fs
                    /\ Raise("save_model", out)
    /\ UNCHANGED << config_source, hub_columns, hub_eval, cfg, output_dir,
                    eval_dataset, model, trainer, sft_config, ft_model,
                    example1, exit_code >>

Publish_Rollback ==
    /\ pc = "publish"
    /\ IF ShouldPublish(cfg)
          THEN /\ calls' = Append(calls,
                     Call("push_to_hub", cfg.hugging_face.token,
                          trainer.model, trainer.output_dir))
               /\ \E out \in Outcomes :
                    IF out = Ok THEN fs' = fs /\ Return_("publish")
                          ELSE /\ fs' = [p \in DOMAIN fs |->
                                           IF p = trainer.output_dir
                                              THEN fs[p] \ {"weights"}
                                              ELSE fs[p]]
                               /\ Raise("publish", out)
          ELSE /\ calls' = calls
               /\ fs' = fs
               /\ Return_("publish")
    /\ UNCHANGED << config_source, hub_columns, hub_eval, cfg, output_dir,
                    eval_dataset, model, trainer, sft_config, ft_model,
                    example1, exit_code >>

\* lines 61-62: the optional push_to_hub
Publish ==
    /\ pc = "publish"
    /\ IF ShouldPublish(cfg)
          THEN /\ calls' = Append(calls,
                     Call("push_to_hub", cfg.hugging_face.token,
                          trainer.model, trainer.output_dir))
               /\ \E out \in Outcomes :
                    IF out = Ok THEN Return_("publish") ELSE Raise("publish", out)
          ELSE /\ calls' = calls
               /\ Return_("publish")
    /\ UNCHANGED << config_source, hub_columns, hub_eval, cfg, output_dir,
                    fs, eval_dataset, model, trainer, sft_config, ft_model,
                    example1, exit_code >>

\* line 64: AutoModelForCausalLM.from_pretrained(output_dir).to(device)
Reload ==
    /\ pc = "reload"
    /\ calls' = Append(calls, Call("from_pretrained", None, None,
                                   ReloadPath(output_dir)))
    /\ \E out \in Outcomes :
         IF out = Ok /\ HasWeights(fs, ReloadPath(output_dir))
            THEN ft_model' = "fine_tuned" /\ Return_("reload")
            ELSE /\ ft_model' = ft_model
                 /\ Raise("reload",
                          IF out = Ok THEN << "Exception" >> ELSE out)
    /\ UNCHANGED << config_source, hub_columns, hub_eval, cfg, output_dir,
                    fs, eval_dataset, model, trainer, sft_config, example1,
                    exit_code >>

\* lines 65-68
PostProbe ==
    /\ pc = "post_probe"
    /\ calls' = Append(calls,
          Call("generate_response", PostPrompt(example1), ft_model, NoPath))
    /\ \E out \in Outcomes :
         IF out = Ok THEN Return_("post_probe") ELSE Raise("post_probe", out)
    /\ UNCHANGED << config_source, hub_columns, hub_eval, cfg, output_dir,
                    fs, eval_dataset, model, trainer, sft_config, ft_model,
                    example1, exit_code >>

Abort_ExitZero ==
    /\ pc = "raised"
    /\ pc' = "exited"
    /\ exit_code' = << 0 >>
    /\ model' = None /\ trainer' = NoTrainer /\ ft_model' = None
    /\ UNCHANGED << config_source, hub_columns, hub_eval, cfg, output_dir,
                    fs, eval_dataset, sft_config, example1, calls, completed,
                    error, exc >>

\* main returns at line 68: the script ends and the process exits zero
ReturnFromMain ==
    /\ pc = "return"
    /\ pc' = "exited"
    /\ exit_code' = << 0 >>
    /\ model' = None /\ trainer' = NoTrainer /\ ft_model' = None
    /\ UNCHANGED << config_source, hub_columns, hub_eval, cfg, output_dir,
                    fs, eval_dataset, sft_config, example1, calls, completed,
                    error, exc >>

\* an exception left main uncaught: the process exits with its status
Abort ==
    /\ pc = "raised"
    /\ pc' = "exited"
    /\ exit_code' = << ExitStatus(exc) >>
    /\ model' = None /\ trainer' = NoTrainer /\ ft_model' = None
    /\ UNCHANGED << config_source, hub_columns, hub_eval, cfg, output_dir,
                    fs, eval_dataset, sft_config, example1, calls, completed,
                    error, exc >>

Next ==
    \/ ParseArguments
    \/ GetConfig
    \/ SetupOutputDirectory
    \/ LoadDataset
    \/ PrepareDatasets
    \/ LoadTokenizer
    \/ SetupDeviceAndQuantization
    \/ LoadModel
    \/ PreProbe
    \/ CreatePeftConfig
    \/ CreateSftConfig
    \/ CreateTrainer
    \/ Train
    \/ Evaluate
    \/ SaveModel
    \/ Publish
    \/ Reload
    \/ PostProbe
    \/ ReturnFromMain
    \/ Abort

Spec == Init /\ [][Next]_vars

\* single-threaded and synchronous: while the process has not exited, the
\* current statement eventually returns or raises
FairSpec == Spec /\ WF_vars(Next)

\* ------------------------------------------------------------ properties
CallsOf(fn) == { i \in 1..Len(calls) : calls[i].fn = fn }

PushCalls == CallsOf("push_to_hub")

ProbeCalls == CallsOf("generate_response")

TokenAbsent == ~Truthy(cfg.hugging_face.token)

\* C1: when cfg.hugging_face.push_to_hub is false, main never calls
\* trainer.push_to_hub, whatever the token is.
C1_NoPushWhenFlagFalse ==
    (~cfg.hugging_face.push_to_hub) => PushCalls = {}

C1_Witness ==
    /\ exit_code = << 0 >>
    /\ ~cfg.hugging_face.push_to_hub
    /\ cfg.hugging_face.token = "hf_tok"

\* C2: with the flag set and the token None or empty, push_to_hub is never
\* called, the publish step raises nothing, and the step goes straight on
\* to the reload without touching anything else.
C2_SkipWhenTokenAbsent ==
    /\ []((cfg.hugging_face.push_to_hub /\ TokenAbsent)
            => (PushCalls = {} /\ error # "publish"))
    /\ [][(pc = "publish" /\ cfg.hugging_face.push_to_hub /\ TokenAbsent)
            => (/\ pc' = "reload"
                /\ error' = None
                /\ calls' = calls
                /\ fs' = fs)]_vars

C2_Witness ==
    /\ "post_probe" \in completed
    /\ cfg.hugging_face.push_to_hub
    /\ cfg.hugging_face.token = ""

\* C3: with the flag set and a token present, once train, evaluate and
\* save_model have completed push_to_hub is called exactly once, with the
\* configured token, and never before save_model has completed.
C3_PushOnceAfterSave ==
    /\ Cardinality(PushCalls) <= 1
    /\ \A i \in PushCalls :
          /\ calls[i].text = cfg.hugging_face.token
          /\ {"train", "evaluate", "save_model"} \subseteq completed
          /\ \E j \in CallsOf("save_model") : j < i
    /\ ( /\ cfg.hugging_face.push_to_hub
         /\ ~TokenAbsent
         /\ {"train", "evaluate", "save_model"} \subseteq completed
         /\ pc # "publish" )
       => Cardinality(PushCalls) = 1

C3_Witness ==
    /\ "publish" \in completed
    /\ Cardinality(PushCalls) = 1
    /\ exit_code = << 0 >>

\* C4: every call of generate_response gets the instruction text of the
\* first element of the evaluation split, so both probes get the same text.
C4_SameExampleInBothProbes ==
    /\ \A i \in ProbeCalls :
          calls[i].text = eval_dataset[1]["instruction"]
    /\ \A i, j \in ProbeCalls : calls[i].text = calls[j].text

C4_Witness ==
    /\ Cardinality(ProbeCalls) = 2
    /\ Len(eval_dataset) >= 2
    /\ eval_dataset[1]["instruction"] # eval_dataset[2]["instruction"]
    /\ eval_dataset[1]["instruction"] # eval_dataset[1]["response"]

\* C5: at most one model is held at any point of the run.
C5_AtMostOneModelHeld == Cardinality(HeldModels) <= 1

MainOrder ==
    << "parse_arguments", "get_config", "setup_output_directory",
       "load_dataset", "prepare_datasets", "load_tokenizer",
       "setup_device_and_quantization", "load_model", "generate_response",
       "create_peft_config", "create_sft_config", "SFTTrainer",
       "train", "evaluate", "save_model", "from_pretrained",
       "generate_response" >>

IsNotPush(c) == c.fn # "push_to_hub"

CallsButPush == SelectSeq(calls, IsNotPush)

\* C6: the calls main makes are a prefix of one fixed sequence (so nothing
\* is re-entered), push_to_hub comes only right after save_model, the first
\* probe runs on the base model, and the reload happens only after
\* save_model has completed and reads the directory that was set up before
\* training and that save_model wrote to.
C6_FixedOrder ==
    /\ Len(CallsButPush) <= Len(MainOrder)
    /\ \A i \in 1..Len(CallsButPush) : CallsButPush[i].fn = MainOrder[i]
    /\ \A i \in PushCalls : i > 1 /\ calls[i - 1].fn = "save_model"
    /\ \A i \in ProbeCalls :
          IF CallsOf("train") = {} THEN calls[i].model = "base"
          ELSE \/ calls[i].model = "base"
                  /\ \A t \in CallsOf("train") : i < t
               \/ calls[i].model = "fine_tuned"
                  /\ \A t \in CallsOf("from_pretrained") : t < i
    /\ \A i \in CallsOf("from_pretrained") :
          /\ "save_model" \in completed
          /\ \E j \in CallsOf("save_model"), k \in CallsOf("setup_output_directory") :
                /\ k < j /\ j < i
                /\ calls[j].path = calls[i].path
                /\ calls[k].path = calls[i].path
                /\ \A t \in CallsOf("train") : k < t

C6_Witness ==
    /\ exit_code = << 0 >>
    /\ PushCalls # {}
    /\ Len(calls) = Len(MainOrder) + 1

\* a step has failed: it raised something other than a clean SystemExit(0)
StepFailed == error # None /\ exc # << "SystemExit", 0 >>

\* C7: once a step has raised, no further call is made (no retry, no later
\* step); when the step failed the process never exits zero, and it does
\* exit non-zero.
C7_FailurePropagates ==
    /\ [][(error # None)
            => (/\ calls' = calls
                /\ completed' = completed
                /\ error' = error
                /\ exc' = exc)]_vars
    /\ [](StepFailed => exit_code # << 0 >>)
    /\ (StepFailed ~> (exit_code # << >> /\ exit_code # << 0 >>))

C7_Witness ==
    /\ exit_code = << 2 >>
    /\ error = "train"
    /\ Len(calls) = 13

\* C8: neither a failing push_to_hub nor the abort after it changes the
\* output directory: the weights save_model wrote are still there.
C8_NoRollbackOnPublishFailure ==
    /\ [][(error' = "publish") => (fs' = fs)]_vars
    /\ [](error = "publish" => HasWeights(fs, output_dir))

C8_Witness ==
    /\ exit_code = << 1 >>
    /\ error = "publish"
    /\ HasWeights(fs, output_dir)

\* C9 as stated: the process always exits; it exits zero exactly when no
\* step raised, and then the post-training probe has completed.
C9_ZeroExitOnlyAfterPostProbe ==
    /\ <>(exit_code # << >>)
    /\ [](exit_code = << 0 >> => ("post_probe" \in completed /\ error = None))
    /\ []((exit_code # << >> /\ error = None)
            => (exit_code = << 0 >> /\ "post_probe" \in completed))

\* C9 (amended): the process always exits; when no step raised it exits
\* zero with the post-training probe completed; a zero exit comes either
\* from that or from a step that raised SystemExit(0).
C9_Terminates ==
    /\ <>(exit_code # << >>)
    /\ [](exit_code = << 0 >>
            => \/ "post_probe" \in completed /\ error = None
               \/ error # None /\ exc = << "SystemExit", 0 >>)
    /\ []((exit_code # << >> /\ error = None)
            => (exit_code = << 0 >> /\ "post_probe" \in completed))

C9_Witness ==
    /\ exit_code = << 0 >>
    /\ "post_probe" \in completed

\* C10: the prompt of every probe is the first evaluation example's field
\* named by cfg.dataset.instruction_column_name.
C10_PromptIsConfiguredColumn ==
    \A i \in ProbeCalls :
        calls[i].text = eval_dataset[1][cfg.dataset.instruction_column_name]

====
